---- MODULE Spec2Model ----
(***************************************************************************)
(* Model of book_parser.py: the page loop that fetches the pages of an     *)
(* online book, extracts and cleans the paragraphs that follow the page    *)
(* markers, appends them to the output file, stops on an absent page, on   *)
(* three empty/repeated pages or at max_pages, and then hands the closed   *)
(* file to the converter.                                                  *)
(*                                                                         *)
(* Strings are sequences of one-character tokens.  A parsed page (soup) is *)
(* the sequence of the sibling nodes of its body, each node a record       *)
(* [name, text]: name is the tag name ("img", "p", "div") or "#text" for a *)
(* text node, text is the node's text.  An HTTP body is given by the nodes *)
(* it parses to; the empty body "" is the empty sequence.                  *)
(***************************************************************************)
EXTENDS Integers, Sequences, FiniteSets, TLC

VARIABLES
    source,              \* the site: page number -> HTTP response
    page_number,         \* book_parser.py:88
    last_content,        \* book_parser.py:89
    empty_page_counter,  \* book_parser.py:90
    file,                \* the output file: the strings written to it, in order
    fileOpen,            \* whether the with-block still holds the file open
    pc,                  \* position of the script
    stop,                \* the stop message printed by the loop: [reason, page]
    fetched,             \* history: the page numbers requested, in order
    processed,           \* history: number of iterations that took the if-branch
    conversions,         \* history: the converter invocations
    soup,                \* input of the extraction harness
    content,             \* input of the normalization harness
    cleaned              \* outputs of successive clean_content passes

vars == <<source, page_number, last_content, empty_page_counter, file, fileOpen,
          pc, stop, fetched, processed, conversions, soup, content, cleaned>>

----------------------------------------------------------------------------
(* Bounds *)

\* max_pages is 800 in the source; the model runs the loop with a small ceiling.
MaxPagesBound == 4
\* longest raw paragraph given to clean_content
MaxLen == 4
\* most sibling nodes in a page given to extract_and_save_content
MaxNodes == 5

max_pages == MaxPagesBound

----------------------------------------------------------------------------
(* Characters and strings *)

EnDash == "u2013"
Nbsp == "u00a0"
Space == " "
Newline == "\n"

Digits == <<"0", "1", "2", "3", "4", "5", "6", "7", "8", "9">>

RECURSIVE Str(_)
\* str(page_number): the decimal representation
Str(n) == IF n < 10 THEN <<Digits[n + 1]>>
          ELSE Str(n \div 10) \o <<Digits[(n % 10) + 1]>>

\* str.isspace() of one character (U+00A0 is whitespace for Python's str)
IsSpace(c) == c \in {Space, Newline, Nbsp}

RECURSIVE lstrip(_)
lstrip(s) == IF s # <<>> /\ IsSpace(s[1]) THEN lstrip(Tail(s)) ELSE s

RECURSIVE rstrip(_)
rstrip(s) == IF s # <<>> /\ IsSpace(s[Len(s)]) THEN rstrip(SubSeq(s, 1, Len(s) - 1)) ELSE s

\* str.strip()
strip(s) == rstrip(lstrip(s))

RECURSIVE replace(_, _, _)
\* str.replace(old, new): left to right, non-overlapping, old non-empty
replace(s, old, new) ==
    IF Len(s) < Len(old) THEN s
    ELSE IF SubSeq(s, 1, Len(old)) = old
         THEN new \o replace(SubSeq(s, Len(old) + 1, Len(s)), old, new)
         ELSE <<s[1]>> \o replace(Tail(s), old, new)

\* sub in s, for strings
Contains(sub, s) ==
    \E i \in 0..(Len(s) - Len(sub)) : SubSeq(s, i + 1, i + Len(sub)) = sub

----------------------------------------------------------------------------
(* fetch_page *)

None == [some |-> FALSE]
Some(t) == [some |-> TRUE, text |-> t]

NotFound == [status |-> 404, text |-> <<>>]

\* requests.get(url): the site's answer for page n; the site has no page
\* beyond the modelled range
Response(n) == IF n \in DOMAIN source THEN source[n] ELSE NotFound

fetch_page(response) ==
    IF response.status = 200 THEN Some(response.text) ELSE None

\* truth value of page_content in "if page_content:"
Truthy(page_content) == page_content.some /\ page_content.text # <<>>

----------------------------------------------------------------------------
(* clean_content, save_content *)

clean_content_keep_nbsp(c) == strip(replace(c, <<EnDash, Nbsp>>, <<>>))

clean_content(c) ==
    strip(replace(replace(c, <<EnDash, Nbsp>>, <<>>), <<Nbsp>>, <<Space>>))

save_content(f, c) == Append(f, c \o <<Newline, Newline>>)

----------------------------------------------------------------------------
(* extract_and_save_content *)

IsTag(node) == node.name # "#text"

\* x in node: substring test for a text node, membership among the children
\* for a tag (a tag of the model has at most one child, its text)
In(x, node) ==
    IF IsTag(node) THEN node.text # <<>> /\ node.text = x
    ELSE Contains(x, node.text)

\* truth value of tag.next_sibling: a tag is always true, a string when non-empty
NodeTruthy(node) == IsTag(node) \/ node.text # <<>>

RECURSIVE get_text(_)
\* soup.get_text(): the text of all nodes, concatenated in document order
get_text(s) == IF s = <<>> THEN <<>> ELSE s[1].text \o get_text(Tail(s))

\* index of the first node after i with the given tag name, 0 for None
find_next(s, i, name) ==
    IF \E j \in (i + 1)..Len(s) : s[j].name = name
    THEN CHOOSE j \in (i + 1)..Len(s) :
            /\ s[j].name = name
            /\ \A k \in (i + 1)..(j - 1) : s[k].name # name
    ELSE 0

\* index of the next sibling after i with the given tag name, 0 for None;
\* all nodes of a page of the model are siblings
find_next_sibling(s, i, name) == find_next(s, i, name)

\* the markers of the page, in document order
page_marker(s, n) ==
    {i \in 1..Len(s) :
        /\ s[i].name = "img"
        /\ i < Len(s)
        /\ NodeTruthy(s[i + 1])
        /\ In(Str(n), s[i + 1])}

RECURSIVE WriteParagraphs(_, _, _)
\* the while loop of one marker, next_sibling being node j (0 for None)
WriteParagraphs(s, f, j) ==
    IF j # 0 /\ s[j].name = "p"
    THEN WriteParagraphs(s, save_content(f, clean_content(s[j].text)),
                         find_next_sibling(s, j, "p"))
    ELSE f

RECURSIVE ForMarkers(_, _, _, _)
\* the for loop over the markers from index i on
ForMarkers(s, f, n, i) ==
    IF i > Len(s) THEN f
    ELSE IF i \in page_marker(s, n)
         THEN ForMarkers(s, WriteParagraphs(s, f, find_next(s, i, "p")), n, i + 1)
         ELSE ForMarkers(s, f, n, i + 1)

extract_and_save_content(s, f, n) == ForMarkers(s, f, n, 1)

----------------------------------------------------------------------------
(* The pages the site may serve *)

TextNode(t) == [name |-> "#text", text |-> t]
P(t) == [name |-> "p", text |-> t]
Div(t) == [name |-> "div", text |-> t]
Img == [name |-> "img", text |-> <<>>]

EmptyBody == <<>>
Blank1 == <<TextNode(<<Space>>)>>
Blank2 == <<TextNode(<<Newline, Space>>)>>
\* a body with no text at all
ImgOnly == <<Img>>
PlainA == <<P(<<"a">>)>>
\* a content page of the book: the marker of page n and two paragraphs
BookPage(n) == <<Img, TextNode(Str(n)), P(<<EnDash, Nbsp, "a">>), P(<<"b", Nbsp>>)>>

Bodies(n) == {EmptyBody, Blank1, Blank2, ImgOnly, PlainA, BookPage(n)}

Responses(n) == {NotFound} \cup {[status |-> 200, text |-> b] : b \in Bodies(n)}

Sources == {s \in [1..max_pages -> UNION {Responses(n) : n \in 1..max_pages}] :
               \A n \in 1..max_pages : s[n] \in Responses(n)}

----------------------------------------------------------------------------
(* The page loop *)

NoStop == [reason |-> "none", page |-> 0]

Init ==
    /\ source \in Sources
    /\ page_number = 1
    /\ last_content = <<>>
    /\ empty_page_counter = 0
    /\ file = <<>>
    /\ fileOpen = TRUE
    /\ pc = "loop"
    /\ stop = NoStop
    /\ fetched = <<>>
    /\ processed = 0
    /\ conversions = <<>>
    /\ soup = <<>>
    /\ content = <<>>
    /\ cleaned = <<>>


\* the while condition
LoopCondition_no_ceiling(n) == TRUE

LoopCondition(n) == n <= max_pages

\* "not current_content.strip() or current_content == last_content"
IsEmptyOrRepeated_empty_only(current_content, last) == strip(current_content) = <<>>

IsEmptyOrRepeated(current_content, last) ==
    strip(current_content) = <<>> \/ current_content = last

\* the counter after the page is evaluated
NextCounter_no_reset(counter, strike) == IF strike THEN counter + 1 ELSE counter

NextCounter(counter, strike) == IF strike THEN counter + 1 ELSE 0

\* "page_number += 1"
NextPage_skip(n) == n + 2

NextPage(n) == n + 1

\* One pass of the while body: fetch, then either extract, evaluate and
\* advance or break (if-branch), or break on an absent page (else-branch).
LoopIteration ==
    /\ pc = "loop"
    /\ LoopCondition(page_number)
    /\ fetched' = Append(fetched, page_number)
    /\ LET page_content == fetch_page(Response(page_number)) IN
       IF Truthy(page_content)
       THEN LET parsed == page_content.text
                current_content == get_text(parsed)
                strike == IsEmptyOrRepeated(current_content, last_content)
                counter == NextCounter(empty_page_counter, strike)
            IN  /\ file' = extract_and_save_content(parsed, file, page_number)
                /\ processed' = processed + 1
                /\ empty_page_counter' = counter
                /\ IF strike /\ counter >= 3
                   THEN /\ stop' = [reason |-> "end_of_book", page |-> page_number - 3]
                        /\ pc' = "exit_with"
                        /\ UNCHANGED <<last_content, page_number>>
                   ELSE /\ last_content' = current_content
                        /\ page_number' = NextPage(page_number)
                        /\ UNCHANGED <<stop, pc>>
       ELSE /\ stop' = [reason |-> "absent", page |-> page_number]
            /\ pc' = "exit_with"
            /\ UNCHANGED <<file, processed, empty_page_counter, last_content, page_number>>
    /\ UNCHANGED <<source, fileOpen, conversions, soup, content, cleaned>>

\* The while condition fails: the ceiling ends the loop.
LoopExit ==
    /\ pc = "loop"
    /\ ~LoopCondition(page_number)
    /\ stop' = [reason |-> "max_pages", page |-> page_number]
    /\ pc' = "exit_with"
    /\ UNCHANGED <<source, page_number, last_content, empty_page_counter, file,
                   fileOpen, fetched, processed, conversions, soup, content, cleaned>>

\* Leaving the with-block closes the file; "Book parsing completed." follows.
ExitWith_leaves_open ==
    /\ pc = "exit_with"
    /\ pc' = "convert"
    /\ UNCHANGED <<source, page_number, last_content, empty_page_counter, file,
                   fileOpen, stop, fetched, processed, conversions, soup, content, cleaned>>

ExitWith ==
    /\ pc = "exit_with"
    /\ fileOpen' = FALSE
    /\ pc' = "convert"
    /\ UNCHANGED <<source, page_number, last_content, empty_page_counter, file,
                   stop, fetched, processed, conversions, soup, content, cleaned>>

\* convert_txt_to_mobi(output_file, mobi_file): ebook-convert reads the file;
\* a non-zero exit is caught and printed.
convert_txt_to_mobi ==
    /\ pc = "convert"
    /\ \E result \in {"completed", "CalledProcessError"} :
          conversions' = Append(conversions,
                                [txt |-> file, open |-> fileOpen, result |-> result])
    /\ pc' = "done"
    /\ UNCHANGED <<source, page_number, last_content, empty_page_counter, file,
                   fileOpen, stop, fetched, processed, soup, content, cleaned>>

Next == LoopIteration \/ LoopExit \/ ExitWith \/ convert_txt_to_mobi

Spec == Init /\ [][Next]_vars

----------------------------------------------------------------------------
(* Harness for clean_content: every raw paragraph up to MaxLen characters  *)
(* over the en dash, the non-breaking space, the space and a letter is     *)
(* normalized, and the result is normalized again.                         *)

CleanAlphabet == {EnDash, Nbsp, Space, "a"}

Strings(alphabet, maxlen) == UNION {[1..n -> alphabet] : n \in 0..maxlen}

InitClean ==
    /\ content \in Strings(CleanAlphabet, MaxLen)
    /\ cleaned = <<>>
    /\ pc = "clean"
    /\ source = <<>>
    /\ page_number = 1
    /\ last_content = <<>>
    /\ empty_page_counter = 0
    /\ file = <<>>
    /\ fileOpen = TRUE
    /\ stop = NoStop
    /\ fetched = <<>>
    /\ processed = 0
    /\ conversions = <<>>
    /\ soup = <<>>

CleanPass ==
    /\ pc = "clean"
    /\ Len(cleaned) < 2
    /\ cleaned' = Append(cleaned,
                         clean_content(IF cleaned = <<>> THEN content
                                       ELSE cleaned[Len(cleaned)]))
    /\ UNCHANGED <<source, page_number, last_content, empty_page_counter, file,
                   fileOpen, pc, stop, fetched, processed, conversions, soup, content>>

NextClean == CleanPass

SpecClean == InitClean /\ [][NextClean]_vars

----------------------------------------------------------------------------
(* Harness for extract_and_save_content: every page of up to MaxNodes      *)
(* sibling nodes is extracted for page number 1 or 2 into an empty file.   *)

NodeKinds == {Img, TextNode(<<"1">>), P(<<"a">>), P(<<"b">>), Div(<<"c">>)}

ExtractPages == {1, 2}

InitExtract ==
    /\ soup \in Strings(NodeKinds, MaxNodes)
    /\ page_number \in ExtractPages
    /\ file = <<>>
    /\ pc = "extract"
    /\ source = <<>>
    /\ last_content = <<>>
    /\ empty_page_counter = 0
    /\ fileOpen = TRUE
    /\ stop = NoStop
    /\ fetched = <<>>
    /\ processed = 0
    /\ conversions = <<>>
    /\ content = <<>>
    /\ cleaned = <<>>

ExtractStep ==
    /\ pc = "extract"
    /\ file' = extract_and_save_content(soup, file, page_number)
    /\ pc' = "extracted"
    /\ UNCHANGED <<source, page_number, last_content, empty_page_counter, fileOpen,
                   stop, fetched, processed, conversions, soup, content, cleaned>>

NextExtract == ExtractStep

SpecExtract == InitExtract /\ [][NextExtract]_vars


----------------------------------------------------------------------------
(* Notions the properties are stated in *)

Success(n) == source[n].status = 200
PageText(n) == get_text(source[n].text)
IsBlank(t) == strip(t) = <<>>
OneTo(k) == [i \in 1..k |-> i]

\* page j has non-blank text that differs from the text of the page before it
Fresh(j) ==
    /\ Success(j)
    /\ ~IsBlank(PageText(j))
    /\ j > 1 => PageText(j) # PageText(j - 1)

\* page j has blank text or repeats the text of the page before it
Strike(j) ==
    /\ Success(j)
    /\ IsBlank(PageText(j)) \/ (j > 1 /\ PageText(j) = PageText(j - 1))

RECURSIVE TrailingStrikes(_)
\* number of most recent consecutive strike pages among pages 1..m
TrailingStrikes(m) ==
    IF m = 0 \/ ~Strike(m) THEN 0 ELSE 1 + TrailingStrikes(m - 1)

RECURSIVE ExpectedFile(_)
\* the file holding what pages 1..m yield, and nothing else
ExpectedFile(m) ==
    IF m = 0 THEN <<>>
    ELSE extract_and_save_content(source[m].text, ExpectedFile(m - 1), m)

NeverFetchedAbove(k) == \A i \in 1..Len(fetched) : fetched[i] <= k

----------------------------------------------------------------------------
(* C1 *)

C1_SameText(n) ==
    /\ n + 2 <= max_pages
    /\ \A j \in 1..(n - 1) : Fresh(j)
    /\ \A j \in n..(n + 2) :
          Success(j) /\ ~IsBlank(PageText(j)) /\ PageText(j) = PageText(n)

C1_ThreeStrikes(n) ==
    /\ n + 2 <= max_pages
    /\ \A j \in 1..(n - 1) : Fresh(j)
    /\ \A j \in n..(n + 2) : Strike(j) /\ source[j].text # <<>>

C1_StopsAt(n) ==
    /\ NeverFetchedAbove(n + 2)
    /\ pc # "loop" => stop = [reason |-> "end_of_book", page |-> n - 1]

\* C1 as stated: if pages n, n+1, n+2 return the same non-blank whole-page
\* text and all earlier pages are fetched with non-blank text different from
\* their predecessor, the loop stops with reported end page n-1 and never
\* fetches a page above n+2.  Violated: page n itself resets the counter.
C1_StopAfterThree_AsStated ==
    \A n \in 1..max_pages : C1_SameText(n) => C1_StopsAt(n)

\* C1 amended: if pages n, n+1, n+2 each return a non-empty body whose
\* whole-page text is whitespace-only or equal to the text of the page just
\* before it, and all earlier pages are fetched with non-blank text different
\* from their predecessor, the loop stops with reported end page n-1 and
\* never fetches a page above n+2.
C1_StopAfterThreeStrikes ==
    \A n \in 1..max_pages : C1_ThreeStrikes(n) => C1_StopsAt(n)

\* a run stopped by a non-blank text served four times, pages 1..4
C1_Witness ==
    /\ pc = "done"
    /\ C1_ThreeStrikes(2)
    /\ ~IsBlank(PageText(4))
    /\ stop = [reason |-> "end_of_book", page |-> 1]

----------------------------------------------------------------------------
(* C2 *)

\* C2 as stated: if page k is the first page with a non-success status and
\* the loop did not stop by three strikes, it stops at page k with the "does
\* not exist" reason after exactly k-1 processed pages, the file holds only
\* what pages 1..k-1 yield, and pages 1..k are the pages fetched.
C2_AbsenceStops_AsStated ==
    \A k \in 1..max_pages :
        (/\ ~Success(k)
         /\ \A j \in 1..(k - 1) : Success(j)
         /\ pc # "loop"
         /\ stop.reason # "end_of_book")
        => /\ stop = [reason |-> "absent", page |-> k]
           /\ processed = k - 1
           /\ file = ExpectedFile(k - 1)
           /\ fetched = OneTo(k)

----------------------------------------------------------------------------
(* C3 *)

\* C3 as stated: the "does not exist" stop is taken only for a non-success
\* status, and every page fetched with status 200 is evaluated (counted as
\* processed), a page with an empty body included.
C3_SuccessNeverAbsent_AsStated ==
    /\ stop.reason = "absent" => ~Success(stop.page)
    /\ processed = Cardinality({i \in 1..Len(fetched) : Success(fetched[i])})

----------------------------------------------------------------------------
(* C4 *)

RECURSIVE C4_Run(_, _, _)
\* the paragraphs directly following node j: text nodes between elements are
\* passed over, the first element that is no paragraph ends the run
C4_Run(s, f, j) ==
    IF j > Len(s) THEN f
    ELSE IF s[j].name = "#text" THEN C4_Run(s, f, j + 1)
    ELSE IF s[j].name = "p"
         THEN C4_Run(s, save_content(f, clean_content(s[j].text)), j + 1)
         ELSE f

RECURSIVE C4_File(_, _, _, _)
C4_File(s, f, n, i) ==
    IF i > Len(s) THEN f
    ELSE IF i \in page_marker(s, n)
         THEN C4_File(s, C4_Run(s, f, i + 1), n, i + 1)
         ELSE C4_File(s, f, n, i + 1)

\* C4 as stated: for every marker of the page, in order, exactly the run of
\* paragraphs directly following the marker is written, ending at the first
\* non-paragraph sibling.
C4_ExtractionOrdering_AsStated ==
    pc = "extracted" => file = C4_File(soup, <<>>, page_number, 1)

----------------------------------------------------------------------------
(* C5 *)

\* C5: a second pass of clean_content returns the result of the first pass;
\* the result of one pass holds no non-breaking space and has no leading or
\* trailing whitespace.
C5_IdempotentNormalization ==
    /\ Len(cleaned) >= 1 =>
          /\ \A i \in 1..Len(cleaned[1]) : cleaned[1][i] # Nbsp
          /\ cleaned[1] # <<>> =>
                ~IsSpace(cleaned[1][1]) /\ ~IsSpace(cleaned[1][Len(cleaned[1])])
    /\ Len(cleaned) = 2 => cleaned[2] = cleaned[1]

\* both passes done on a paragraph where every step of the first pass acted
C5_Witness ==
    /\ Len(cleaned) = 2
    /\ content = <<EnDash, Nbsp, "a", Nbsp>>
    /\ cleaned[1] = <<"a">>

----------------------------------------------------------------------------
(* C6 *)

C6_NoSignal == \A n \in 1..max_pages : Fresh(n)

\* steps the script can still take: bounded below by 0
C6_Variant ==
    CASE pc = "loop" -> (max_pages + 1 - page_number) + 3
      [] pc = "exit_with" -> 2
      [] pc = "convert" -> 1
      [] OTHER -> 0

\* the guard of some action of Next holds
C6_CanStep ==
    \/ pc = "loop" /\ LoopCondition(page_number)
    \/ pc = "loop" /\ ~LoopCondition(page_number)
    \/ pc = "exit_with"
    \/ pc = "convert"

C6_State ==
    /\ C6_Variant \in Nat
    /\ pc # "done" => C6_CanStep
    /\ NeverFetchedAbove(max_pages)
    /\ (C6_NoSignal /\ pc # "loop") =>
          /\ fetched = OneTo(max_pages)
          /\ processed = max_pages
          /\ stop.reason = "max_pages"

\* C6: every run terminates (each step lowers a natural-number measure and
\* the script is never stuck before its end); no page above max_pages is
\* ever fetched; when no page is absent, empty or repeated, exactly pages
\* 1..max_pages are processed and the loop exits at the ceiling.
C6_CeilingEnforcement == [](C6_State) /\ [][C6_Variant' < C6_Variant]_vars

C6_Witness ==
    /\ C6_NoSignal
    /\ pc = "done"
    /\ stop.reason = "max_pages"
    /\ processed = max_pages

----------------------------------------------------------------------------
(* C7 *)

\* C7: the pages fetched are 1, 2, ..., k in this order, however the loop ends.
C7_MonotonicPageOrder ==
    /\ fetched = OneTo(Len(fetched))
    /\ pc = "loop" => page_number = Len(fetched) + 1

C7_Witness ==
    /\ pc = "done"
    /\ Len(fetched) = max_pages
    /\ stop.reason = "absent"

----------------------------------------------------------------------------
(* C8 *)

C8_State ==
    /\ Len(conversions) <= 1
    /\ pc = "done" => Len(conversions) = 1
    /\ pc \in {"loop", "exit_with"} => conversions = <<>>
    /\ \A i \in 1..Len(conversions) :
          ~conversions[i].open /\ conversions[i].txt = file

C8_Step ==
    /\ file' # file => fileOpen /\ pc = "loop"
    /\ Len(conversions') > Len(conversions) => ~fileOpen

\* C8: on every exit path the file is closed before the converter is
\* invoked, the converter is invoked exactly once, nothing is written once
\* the loop is left, and the converter gets the file as the loop left it.
C8_ClosedBeforeConvert == [](C8_State) /\ [][C8_Step]_vars

C8_Witness ==
    /\ pc = "done"
    /\ file # <<>>
    /\ ~fileOpen
    /\ Len(conversions) = 1
    /\ conversions[1].result = "CalledProcessError"

----------------------------------------------------------------------------
(* C9 *)

\* C9: after each evaluated page the counter is the number of most recent
\* consecutive pages that were blank or equal to the page before them; the
\* loop advances while it is below 3 and stops with the end-of-book report,
\* page number minus 3, exactly when it reaches 3; it never exceeds 3.
C9_StrikeCounterRule ==
    /\ empty_page_counter = TrailingStrikes(processed)
    /\ empty_page_counter <= 3
    /\ stop.reason = "end_of_book" <=> empty_page_counter = 3
    /\ stop.reason = "end_of_book" =>
          stop.page = page_number - 3 /\ page_number = processed
    /\ empty_page_counter < 3 => page_number = processed + 1

\* a stop by three strikes after the counter was reset by a fresh page
C9_Witness ==
    /\ stop.reason = "end_of_book"
    /\ processed = max_pages
    /\ Fresh(1)
    /\ ~IsBlank(PageText(2))
    /\ IsBlank(PageText(3))

----------------------------------------------------------------------------
(* C10 *)

\* C10 as stated: when the three-strike stop fires, the reported end page is
\* at least 1, at most max_pages, and a page that was fetched successfully.
C10_ReportedPageValid_AsStated ==
    stop.reason = "end_of_book" =>
        /\ stop.page \in 1..max_pages
        /\ \E i \in 1..Len(fetched) : fetched[i] = stop.page /\ Success(stop.page)

====
